---- MODULE Spec2Model ----
(***************************************************************************)
(* Model of great_expectations/core/added_diagnostics.py.                  *)
(*                                                                         *)
(* A diagnostics object wraps a list of "resource not added" errors.  The  *)
(* heap `objs` holds a few diagnostics objects (their class and their      *)
(* error list); `last` records the most recent call: which method, on      *)
(* which object, with which arguments, and how it ended (returned or       *)
(* raised, and what it raised).  `pool` is the set of error instances that *)
(* exist in a run, from which the constructors' arguments are drawn.       *)
(*                                                                         *)
(* Two specifications share the actions.  Spec is a resource with its      *)
(* dependencies: two childless diagnostics and a parent, each constructed  *)
(* with a short list, the parent's list growing by update_with_children.   *)
(* SpecAlone is one diagnostics object of any class taken alone, holding   *)
(* any list of the not-added errors, on which the reading and raising      *)
(* operations are called.                                                  *)
(***************************************************************************)
EXTENDS Integers, Sequences, FiniteSets, TLC

VARIABLES objs, last, pool

vars == <<objs, last, pool>>

(***************************************************************************)
(* Bounds of the model.                                                    *)
(***************************************************************************)
\* longest error list handed to the constructor of an object taken alone
MaxInitLen == 2
\* longest error list handed to a constructor where lists are merged
MaxOwn == 1
\* longest error list a parent may reach by merging
MaxErrs == 3
\* most children passed to one update_with_children call
MaxChildren == 2

(***************************************************************************)
(* The error and exception classes the module imports.                     *)
(***************************************************************************)
BatchDefinitionNotAddedError == "BatchDefinitionNotAddedError"
ExpectationSuiteNotAddedError == "ExpectationSuiteNotAddedError"
ValidationDefinitionNotAddedError == "ValidationDefinitionNotAddedError"
CheckpointNotAddedError == "CheckpointNotAddedError"
ValidationDefinitionRelatedResourcesNotAddedError == "ValidationDefinitionRelatedResourcesNotAddedError"
CheckpointRelatedResourcesNotAddedError == "CheckpointRelatedResourcesNotAddedError"

\* the concrete subclasses of ResourceNotAddedError; an error instance is
\* identified by its class
ResourceNotAddedError ==
    { BatchDefinitionNotAddedError, ExpectationSuiteNotAddedError,
      ValidationDefinitionNotAddedError, CheckpointNotAddedError }

\* isinstance(e, cls): the not-added error classes are siblings, none
\* derives from another
IsInstance(e, cls) == e = cls

\* exception_class(errors=errs): the aggregate exception keeps the list
ResourcesNotAddedError(cls, errs) ==
    [raised |-> TRUE, exc |-> cls, errors |-> errs]

(***************************************************************************)
(* The diagnostics classes.                                                *)
(***************************************************************************)
BatchDefinitionAddedDiagnostics == "BatchDefinitionAddedDiagnostics"
ExpectationSuiteAddedDiagnostics == "ExpectationSuiteAddedDiagnostics"
ValidationDefinitionAddedDiagnostics == "ValidationDefinitionAddedDiagnostics"
CheckpointAddedDiagnostics == "CheckpointAddedDiagnostics"

\* subclasses of _ChildAddedDiagnostics
ChildAddedDiagnostics ==
    { BatchDefinitionAddedDiagnostics, ExpectationSuiteAddedDiagnostics }

\* subclasses of _ParentAddedDiagnostics
ParentAddedDiagnostics ==
    { ValidationDefinitionAddedDiagnostics, CheckpointAddedDiagnostics }

parent_error_class(cls) ==
    IF cls = ValidationDefinitionAddedDiagnostics
    THEN ValidationDefinitionNotAddedError
    ELSE CheckpointNotAddedError

children_error_classes(cls) ==
    IF cls = ValidationDefinitionAddedDiagnostics
    THEN { ExpectationSuiteNotAddedError, BatchDefinitionNotAddedError }
    ELSE { ValidationDefinitionNotAddedError }

exception_class(cls) ==
    IF cls = ValidationDefinitionAddedDiagnostics
    THEN ValidationDefinitionRelatedResourcesNotAddedError
    ELSE CheckpointRelatedResourcesNotAddedError

(***************************************************************************)
(* The objects of Spec: two childless diagnostics and one parent           *)
(* diagnostics, whose class is either of the two parent classes.  The      *)
(* object of SpecAlone is of any of the four classes.                      *)
(***************************************************************************)
ObjClasses ==
    { <<BatchDefinitionAddedDiagnostics, ExpectationSuiteAddedDiagnostics, pc>> :
        pc \in ParentAddedDiagnostics }

AloneClasses ==
    { <<c>> : c \in ChildAddedDiagnostics \cup ParentAddedDiagnostics }

SeqsUpTo(S, n) == UNION { [1 .. k -> S] : k \in 0 .. n }

\* the error instances of a run of Spec, for a parent of class pc: the
\* parent's own not-added error and any one of the not-added errors
Pools(pc) == { { parent_error_class(pc), e } : e \in ResourceNotAddedError }

\* values of the `errors` argument of a constructor: at most n errors of P
ErrorLists(P, n) == SeqsUpTo(P, n)

\* values of *children_diagnostics: any objects, the parent included
ChildrenArgs(h) == SeqsUpTo(DOMAIN h, MaxChildren)

IsParent(h, o) == h[o].cls \in ParentAddedDiagnostics

(***************************************************************************)
(* How a call ended.                                                       *)
(***************************************************************************)
Returned == [raised |-> FALSE, exc |-> "None", errors |-> <<>>]

\* raise e, for one of the recorded errors
RaiseError(e) == [raised |-> TRUE, exc |-> e, errors |-> <<>>]

Call(op, self, children, given, outcome, ret) ==
    [op |-> op, self |-> self, children |-> children, given |-> given,
     outcome |-> outcome, ret |-> ret]

(***************************************************************************)
(* AddedDiagnostics                                                        *)
(***************************************************************************)
\* the dataclass constructor stores the list it is given
NewDiagnostics(cls, errs) == [cls |-> cls, errors |-> errs]

\* variant: a single error still counts as added
is_added_upto_one(d) == Len(d.errors) <= 1

is_added(d) == Len(d.errors) = 0

(***************************************************************************)
(* _ChildAddedDiagnostics                                                  *)
(***************************************************************************)
\* variant: raises the most recent error instead of the first
ChildRaiseLastError(d) ==
    IF ~ is_added(d) THEN RaiseError(d.errors[Len(d.errors)]) ELSE Returned

ChildRaiseForErrors(d) ==
    IF ~ is_added(d) THEN RaiseError(d.errors[1]) ELSE Returned

(***************************************************************************)
(* _ParentAddedDiagnostics                                                 *)
(***************************************************************************)
\* variant: child errors appended after the parent's
RECURSIVE update_appending(_, _, _)
update_appending(h, self, children) ==
    IF children = <<>>
    THEN h
    ELSE update_appending(
            [h EXCEPT ![self].errors = h[self].errors \o h[Head(children)].errors],
            self, Tail(children))

\* variant: self.errors = diagnostics.errors, the parent's list is dropped
RECURSIVE update_replacing(_, _, _)
update_replacing(h, self, children) ==
    IF children = <<>>
    THEN h
    ELSE update_replacing(
            [h EXCEPT ![self].errors = h[Head(children)].errors],
            self, Tail(children))

\* variant: the merged list is built in place in the child's list
RECURSIVE update_in_place(_, _, _)
update_in_place(h, self, children) ==
    IF children = <<>>
    THEN h
    ELSE LET merged == h[Head(children)].errors \o h[self].errors
         IN  update_in_place(
                [h EXCEPT ![self].errors = merged, ![Head(children)].errors = merged],
                self, Tail(children))

\* one pass of the loop body per child, each reading the heap as the
\* previous passes left it
RECURSIVE update_with_children(_, _, _)
update_with_children(h, self, children) ==
    IF children = <<>>
    THEN h
    ELSE update_with_children(
            [h EXCEPT ![self].errors = h[Head(children)].errors \o h[self].errors],
            self, Tail(children))

\* variant: the aggregate carries only the first error
ParentRaiseFirstOnly(d) ==
    IF ~ is_added(d)
    THEN ResourcesNotAddedError(exception_class(d.cls), <<d.errors[1]>>)
    ELSE Returned

ParentRaiseForErrors(d) ==
    IF ~ is_added(d)
    THEN ResourcesNotAddedError(exception_class(d.cls), d.errors)
    ELSE Returned

\* variant: no check that the parent's error is the only one
first_error_is_parent(d) ==
    Len(d.errors) >= 1 /\ IsInstance(d.errors[1], parent_error_class(d.cls))

\* variant: any parent resource's not-added error counts
only_error_is_any_parent(d) ==
    /\ Len(d.errors) = 1
    /\ \E cls \in ParentAddedDiagnostics : IsInstance(d.errors[1], parent_error_class(cls))

dependencies_added_except_parent(d) ==
    Len(d.errors) = 1 /\ IsInstance(d.errors[1], parent_error_class(d.cls))

\* variant: the parent's own error is left out of the aggregate
raise_children_errors_only(d) ==
    IF ~ is_added(d) /\ ~ dependencies_added_except_parent(d)
    THEN ResourcesNotAddedError(exception_class(d.cls),
            SelectSeq(d.errors, LAMBDA e : ~ IsInstance(e, parent_error_class(d.cls))))
    ELSE Returned

raise_for_errors_except_parent_not_added_error(d) ==
    IF ~ is_added(d) /\ ~ dependencies_added_except_parent(d)
    THEN ResourcesNotAddedError(exception_class(d.cls), d.errors)
    ELSE Returned

\* raise_for_errors, dispatched on the class of the object
raise_for_errors(d) ==
    IF d.cls \in ChildAddedDiagnostics
    THEN ChildRaiseForErrors(d)
    ELSE ParentRaiseForErrors(d)

(***************************************************************************)
(* The state machine.                                                      *)
(***************************************************************************)
\* every object constructed, with cs[o](errors=es[o])
Constructed(cs, es) == [o \in DOMAIN cs |-> NewDiagnostics(cs[o], es[o])]

Init ==
    /\ \E cs \in ObjClasses :
          /\ pool \in Pools(cs[Len(cs)])
          /\ \E es \in [DOMAIN cs -> ErrorLists(pool, MaxOwn)] :
                objs = Constructed(cs, es)
    /\ last = Call("none", 1, <<>>, <<>>, Returned, FALSE)

InitAlone ==
    /\ pool = ResourceNotAddedError
    /\ \E cs \in AloneClasses :
       \E es \in [DOMAIN cs -> ErrorLists(pool, MaxInitLen)] :
          objs = Constructed(cs, es)
    /\ last = Call("none", 1, <<>>, <<>>, Returned, FALSE)

\* o = SomeDiagnostics(errors=errs): a new object takes the place of o
Construct(o, errs) ==
    /\ objs' = [objs EXCEPT ![o] = NewDiagnostics(objs[o].cls, errs)]
    /\ last' = Call("init", o, <<>>, errs, Returned, FALSE)
    /\ UNCHANGED pool

IsAdded(o) ==
    /\ last' = Call("is_added", o, <<>>, <<>>, Returned, is_added(objs[o]))
    /\ UNCHANGED <<objs, pool>>

RaiseForErrors(o) ==
    /\ last' = Call("raise_for_errors", o, <<>>, <<>>, raise_for_errors(objs[o]), FALSE)
    /\ UNCHANGED <<objs, pool>>

RaiseForErrorsExceptParentNotAddedError(o) ==
    /\ IsParent(objs, o)
    /\ last' = Call("raise_for_errors_except_parent_not_added_error", o, <<>>, <<>>,
                    raise_for_errors_except_parent_not_added_error(objs[o]), FALSE)
    /\ UNCHANGED <<objs, pool>>

UpdateWithChildren(o, children) ==
    /\ IsParent(objs, o)
    /\ LET h == update_with_children(objs, o, children)
       IN  /\ Len(h[o].errors) <= MaxErrs
           /\ objs' = h
    /\ last' = Call("update_with_children", o, children, <<>>, Returned, FALSE)
    /\ UNCHANGED pool

NextAlone ==
    \/ \E o \in DOMAIN objs : \E errs \in ErrorLists(pool, MaxInitLen) : Construct(o, errs)
    \/ \E o \in DOMAIN objs : IsAdded(o)
    \/ \E o \in DOMAIN objs : RaiseForErrors(o)
    \/ \E o \in DOMAIN objs : RaiseForErrorsExceptParentNotAddedError(o)

Next ==
    \/ \E o \in DOMAIN objs : \E errs \in ErrorLists(pool, MaxOwn) : Construct(o, errs)
    \/ \E o \in DOMAIN objs : IsAdded(o)
    \/ \E o \in DOMAIN objs : RaiseForErrors(o)
    \/ \E o \in DOMAIN objs : RaiseForErrorsExceptParentNotAddedError(o)
    \/ \E o \in DOMAIN objs : \E children \in ChildrenArgs(objs) :
          UpdateWithChildren(o, children)

Spec == Init /\ [][Next]_vars

SpecAlone == InitAlone /\ [][NextAlone]_vars

TypeOK ==
    /\ \A o \in DOMAIN objs : Len(objs[o].errors) <= MaxErrs
    /\ last.op \in { "none", "init", "is_added", "raise_for_errors",
                     "raise_for_errors_except_parent_not_added_error",
                     "update_with_children" }

(***************************************************************************)
(* Vocabulary of the properties.                                           *)
(***************************************************************************)
Range(s) == { s[i] : i \in 1 .. Len(s) }

IsSuffix(s, t) ==
    /\ Len(s) <= Len(t)
    /\ SubSeq(t, Len(t) - Len(s) + 1, Len(t)) = s

Count(e, s) == Cardinality({ i \in 1 .. Len(s) : s[i] = e })

RECURSIVE SumLen(_, _)
SumLen(h, children) ==
    IF children = <<>> THEN 0
    ELSE Len(h[Head(children)].errors) + SumLen(h, Tail(children))

RECURSIVE SumCount(_, _, _)
SumCount(e, h, children) ==
    IF children = <<>> THEN 0
    ELSE Count(e, h[Head(children)].errors) + SumCount(e, h, Tail(children))

\* the object of the last call
Self == objs[last.self]

\* the not-added error of the resource type of d itself
OwnError(d) == parent_error_class(d.cls)

RaiseOp == "raise_for_errors"
ExceptOp == "raise_for_errors_except_parent_not_added_error"
UpdateOp == "update_with_children"

\* the raised exception is e itself, or an aggregate listing e
Carried(out, e) == out.raised /\ (out.exc = e \/ e \in Range(out.errors))

\* the one call whose exception is withheld on purpose
Suppressed == last.op = ExceptOp /\ Self.errors = <<OwnError(Self)>>

C2_SilentIffOnlyParentError ==
    last.op = ExceptOp =>
        (~ last.outcome.raised <=> Self.errors = <<OwnError(Self)>>)

(***************************************************************************)
(* C2, amended.  raise_for_errors_except_parent_not_added_error() returns  *)
(* without raising when and only when the list is empty or is exactly      *)
(* [parent-not-added].                                                     *)
(***************************************************************************)
C2_SilentIffEmptyOrOnlyParentError ==
    last.op = ExceptOp =>
        (~ last.outcome.raised <=>
            (Self.errors = <<>> \/ Self.errors = <<OwnError(Self)>>))

C2_Witness ==
    /\ last.op = ExceptOp
    /\ Self.errors = <<OwnError(Self)>>
    /\ ~ last.outcome.raised

(***************************************************************************)
(* C3.  On a parent whose list is non-empty and is not exactly one error   *)
(* of its own not-added kind, the call raises the type's aggregate         *)
(* exception carrying the whole list.                                      *)
(***************************************************************************)
C3_RaisesOnAnyOtherList ==
    ( /\ last.op = ExceptOp
      /\ Self.errors # <<>>
      /\ Self.errors # <<OwnError(Self)>> )
    => /\ last.outcome.raised
       /\ last.outcome.exc = exception_class(Self.cls)
       /\ last.outcome.errors = Self.errors

\* a Checkpoint diagnostics whose only error is ValidationDefinitionNotAddedError
C3_Witness ==
    /\ last.op = ExceptOp
    /\ Self.cls = CheckpointAddedDiagnostics
    /\ Self.errors = <<ValidationDefinitionNotAddedError>>
    /\ last.outcome.raised
    /\ last.outcome.errors = <<ValidationDefinitionNotAddedError>>

(***************************************************************************)
(* C4.  raise_for_errors() on a parent with a non-empty list raises the    *)
(* aggregate exception of its resource type, and the exception's errors    *)
(* are the whole list in the same order.                                   *)
(***************************************************************************)
C4_AggregateKindAndPayload ==
    ( /\ last.op = RaiseOp
      /\ Self.cls \in ParentAddedDiagnostics
      /\ Self.errors # <<>> )
    => /\ last.outcome.raised
       /\ Self.cls = ValidationDefinitionAddedDiagnostics
            => last.outcome.exc = ValidationDefinitionRelatedResourcesNotAddedError
       /\ Self.cls = CheckpointAddedDiagnostics
            => last.outcome.exc = CheckpointRelatedResourcesNotAddedError
       /\ last.outcome.errors = Self.errors

\* a list longer than any constructor argument of Spec: it was merged
C4_Witness ==
    /\ last.op = RaiseOp
    /\ Self.cls \in ParentAddedDiagnostics
    /\ Len(Self.errors) > MaxOwn
    /\ last.outcome.raised
    /\ last.outcome.errors = Self.errors

(***************************************************************************)
(* C5.  is_added is true exactly when the list is empty, and with an empty *)
(* list raise_for_errors() returns without raising, for every variant.     *)
(***************************************************************************)
C5_AddedIffNoErrors ==
    /\ last.op = "is_added" => (last.ret <=> Self.errors = <<>>)
    /\ (last.op = RaiseOp /\ Self.errors = <<>>) => ~ last.outcome.raised

C5_Witness ==
    \/ last.op = "is_added" /\ Self.errors = <<>> /\ last.ret
    \/ last.op = RaiseOp /\ Self.errors = <<>> /\ ~ last.outcome.raised

(***************************************************************************)
(* C6.  raise_for_errors() on a childless diagnostics with a non-empty     *)
(* list raises the first recorded error itself, not an aggregate.          *)
(***************************************************************************)
C6_ChildRaisesFirstError ==
    ( /\ last.op = RaiseOp
      /\ Self.cls \in ChildAddedDiagnostics
      /\ Self.errors # <<>> )
    => /\ last.outcome.raised
       /\ last.outcome.exc = Self.errors[1]
       /\ last.outcome.errors = <<>>

C6_Witness ==
    /\ last.op = RaiseOp
    /\ Self.cls \in ChildAddedDiagnostics
    /\ Len(Self.errors) = 2
    /\ Self.errors[1] # Self.errors[2]
    /\ last.outcome.exc = Self.errors[1]

(***************************************************************************)
(* C7.  Whatever raise operation is called on whatever object, every error *)
(* of its list is carried by the raised exception, except in the           *)
(* suppressed case.                                                        *)
(***************************************************************************)
C7_EveryErrorReported ==
    last.op \in { RaiseOp, ExceptOp } =>
        \/ Suppressed
        \/ \A i \in 1 .. Len(Self.errors) : Carried(last.outcome, Self.errors[i])

(***************************************************************************)
(* C7, amended.  On a parent, every error of the list is carried by the    *)
(* raised exception, except in the suppressed case; a childless            *)
(* diagnostics raises its first error alone, and the later errors of its   *)
(* list are not reported.                                                  *)
(***************************************************************************)
C7_ReportedExceptLaterChildErrors ==
    last.op \in { RaiseOp, ExceptOp } =>
        IF Self.cls \in ChildAddedDiagnostics
        THEN Self.errors # <<>> =>
                /\ Carried(last.outcome, Self.errors[1])
                /\ last.outcome.errors = <<>>
        ELSE \/ Suppressed
             \/ \A i \in 1 .. Len(Self.errors) : Carried(last.outcome, Self.errors[i])

\* the suppressing call on a parent holding its own error and another one
C7_Witness ==
    /\ last.op = ExceptOp
    /\ Len(Self.errors) >= 2
    /\ OwnError(Self) \in Range(Self.errors)
    /\ \A i \in 1 .. Len(Self.errors) : Carried(last.outcome, Self.errors[i])

(***************************************************************************)
(* C8.  Every update_with_children call keeps the list the parent had      *)
(* before the call as a suffix of its new list, so after any sequence of   *)
(* calls the list the parent was constructed with comes last.              *)
(***************************************************************************)
C8_OwnErrorsStayLast ==
    [][ last'.op = UpdateOp =>
            IsSuffix(objs[last'.self].errors, objs'[last'.self].errors) ]_vars

C8_Witness ==
    /\ last.op = UpdateOp
    /\ Len(last.children) = 2
    /\ Len(Self.errors) = 3
    /\ Self.errors[3] = OwnError(Self)
    /\ Self.errors[1] # OwnError(Self)

(***************************************************************************)
(* C9.  After update_with_children with children other than the parent,    *)
(* the parent is added exactly when its list and every child's list were   *)
(* empty before the call, and the new list has as many errors, and as many *)
(* of each error, as the parent's and the children's lists together.       *)
(***************************************************************************)
C9_MergeKeepsEveryError ==
    [][ ( last'.op = UpdateOp /\ last'.self \notin Range(last'.children) ) =>
          LET p == last'.self
              cs == last'.children
          IN  /\ is_added(objs'[p]) <=>
                    /\ objs[p].errors = <<>>
                    /\ \A i \in 1 .. Len(cs) : objs[cs[i]].errors = <<>>
              /\ Len(objs'[p].errors) = Len(objs[p].errors) + SumLen(objs, cs)
              /\ \A e \in ResourceNotAddedError :
                    Count(e, objs'[p].errors)
                        = Count(e, objs[p].errors) + SumCount(e, objs, cs) ]_vars

C9_Witness ==
    /\ last.op = UpdateOp
    /\ last.self \notin Range(last.children)
    /\ Len(last.children) = 2
    /\ \A i \in 1 .. 2 : objs[last.children[i]].errors # <<>>
    /\ Len(Self.errors) = 1 + SumLen(objs, last.children)

(***************************************************************************)
(* C10.  is_added and the two raise operations leave every error list as   *)
(* it was; a new diagnostics holds the list it was given; and              *)
(* update_with_children changes the list of the parent only, the           *)
(* children (other objects than the parent) keep theirs.                   *)
(***************************************************************************)
C10_OnlyUpdateChangesOnlyParent ==
    [][ /\ last'.op \in { "is_added", RaiseOp, ExceptOp } => objs' = objs
        /\ last'.op = "init" =>
              /\ objs'[last'.self].errors = last'.given
              /\ \A o \in DOMAIN objs \ { last'.self } : objs'[o] = objs[o]
        /\ last'.op = UpdateOp =>
              \A o \in DOMAIN objs \ { last'.self } : objs'[o] = objs[o] ]_vars

C10_Witness ==
    /\ last.op = UpdateOp
    /\ Len(last.children) >= 1
    /\ last.self \notin Range(last.children)
    /\ objs[last.children[1]].errors # <<>>
    /\ Len(Self.errors) > Len(objs[last.children[1]].errors)
====
